---------------------------- MODULE Spec2Model ----------------------------
(***************************************************************************)
(* Model of the MCP server launch configuration resolver                   *)
(* (codex-rs/core/src/config_types.rs, McpServerConfig::deserialize, with   *)
(* the preset registry of codex-rs/core/src/mcp_presets.rs) and of the      *)
(* shell environment policy (ShellEnvironmentPolicy) of the same file.      *)
(***************************************************************************)
EXTENDS Integers, Sequences, FiniteSets, TLC

VARIABLES
    presets,     \* the compiled-in preset registry (PRESETS of mcp_presets.rs)
    raw,         \* the RawMcpServerConfig handed to deserialize
    result,      \* Option of the outcome of deserialize on raw
    reraw,       \* Option of the resolved config written back as a raw declaration
    reresult,    \* Option of the outcome of deserialize on reraw
    pc,          \* position of the launch configuration run
    toml,        \* the ShellEnvironmentPolicyToml
    ambient,     \* the environment of the parent process
    policy,      \* Option of the ShellEnvironmentPolicy built from toml
    env,         \* Option of the environment derived from policy and ambient
    epc          \* position of the environment policy run

vars == <<presets, raw, result, reraw, reresult, pc, toml, ambient, policy, env, epc>>

launchVars == <<presets, raw, result, reraw, reresult, pc>>
envVars == <<toml, ambient, policy, env, epc>>

(***************************************************************************)
(* Option<T>: None is the empty sequence, Some(x) the one-element sequence. *)
(***************************************************************************)
None == <<>>
Some(x) == <<x>>
IsSome(o) == Len(o) = 1
IsNone(o) == Len(o) = 0
Unwrap(o) == o[1]
Option(S) == {None} \cup {Some(x) : x \in S}

(***************************************************************************)
(* HashMap<String, String>: a function from its key set.                    *)
(***************************************************************************)
EmptyMap == [k \in {} |-> ""]
IsEmptyMap(m) == DOMAIN m = {}
\* HashMap::insert for every entry of `over`, in any order.
InsertAll(base, over) ==
    [k \in DOMAIN base \cup DOMAIN over |->
        IF k \in DOMAIN over THEN over[k] ELSE base[k]]

(***************************************************************************)
(* f64 and std::time::Duration.                                             *)
(*                                                                          *)
(* A non-NaN finite f64 is [neg, int, frac]: the value int + 0.frac in      *)
(* binary (frac a sequence of bits, most significant first, without         *)
(* trailing zeros), negated when neg.  A Duration is [secs, nanos] as in    *)
(* the standard library.  TLC's integers are 32 bits wide, so the           *)
(* arithmetic below never forms a number above 2 * NANOS_PER_SEC.           *)
(***************************************************************************)
NANOS_PER_SEC == 1000000000
NANOS_PER_MILLI == 1000000
MILLIS_PER_SEC == 1000
F64_MANTISSA_DIGITS == 53

Bit == {0, 1}

\* The number of binary digits of n (n below 2^31).
BitLen(n) == Cardinality({k \in 0..30 : 2^k <= n})

OneBits(bits) == {i \in 1..Len(bits) : bits[i] = 1}
ZeroBits(bits) == {i \in 1..Len(bits) : bits[i] = 0}
Highest(S) == CHOOSE i \in S : \A j \in S : j <= i
Lowest(S) == CHOOSE i \in S : \A j \in S : i <= j

\* bits without the zeros that close it.
StripZeros(bits) ==
    IF OneBits(bits) = {} THEN <<>> ELSE SubSeq(bits, 1, Highest(OneBits(bits)))

\* bits + 1 in the last place: [bits, carry] with carry = 1 when it overflows.
Increment(bits) ==
    IF ZeroBits(bits) = {}
    THEN [bits |-> [i \in 1..Len(bits) |-> 0], carry |-> 1]
    ELSE LET z == Highest(ZeroBits(bits))
         IN  [bits |-> [i \in 1..Len(bits) |->
                           IF i < z THEN bits[i] ELSE IF i = z THEN 1 ELSE 0],
              carry |-> 0]

\* Round int + 0.bits to `keep` fraction bits, ties to even (IEEE 754
\* roundTiesToEven); `sticky` says that a non-zero remainder lies below bits.
RoundFraction(int, bits, keep, sticky) ==
    IF Len(bits) <= keep
    THEN [int |-> int, frac |-> StripZeros(bits)]
    ELSE LET kept == SubSeq(bits, 1, keep)
             rest == SubSeq(bits, keep + 1, Len(bits))
             half == rest[1] = 1
             more == sticky \/ OneBits(Tail(rest)) # {}
             odd  == IF keep = 0 THEN int % 2 = 1 ELSE kept[keep] = 1
             up   == half /\ (more \/ odd)
             inc  == Increment(kept)
         IN  IF ~up THEN [int |-> int, frac |-> StripZeros(kept)]
             ELSE [int |-> int + inc.carry, frac |-> StripZeros(inc.bits)]

\* A quotient nanos / NANOS_PER_SEC is at least 2^-30, so its first one bit is
\* among the first 30, and 30 + 53 + 1 bits hold its mantissa and a guard bit.
NANOS_MAX_LEADING_ZEROS == 29
QuotientBits == NANOS_MAX_LEADING_ZEROS + F64_MANTISSA_DIGITS + 2

\* The first n bits of the binary expansion of r / NANOS_PER_SEC (r below
\* NANOS_PER_SEC), and what is left of r after them: long division, the run
\* of n steps split in two.
Expand[r \in 0..NANOS_PER_SEC, n \in 0..QuotientBits] ==
    IF n = 0 THEN [bits |-> <<>>, rem |-> r]
    ELSE IF n = 1
    THEN IF 2 * r >= NANOS_PER_SEC
         THEN [bits |-> <<1>>, rem |-> 2 * r - NANOS_PER_SEC]
         ELSE [bits |-> <<0>>, rem |-> 2 * r]
    ELSE LET a == Expand[r, n \div 2]
             b == Expand[a.rem, n - n \div 2]
         IN  [bits |-> a.bits \o b.bits, rem |-> b.rem]

\* (nanos as f64) / (NANOS_PER_SEC as f64): the quotient rounded to an f64.
NanosAsSecsF64(nanos) ==
    IF nanos = 0 THEN [int |-> 0, frac |-> <<>>]
    ELSE LET e == Expand[nanos, QuotientBits]
             z == Lowest(OneBits(e.bits)) - 1
         IN  RoundFraction(0, e.bits, z + F64_MANTISSA_DIGITS, e.rem # 0)

\* Duration::as_secs_f64: (secs as f64) + (nanos as f64) / (NANOS_PER_SEC as f64),
\* the sum rounded to an f64 again (secs below 2^31 is an f64 as it stands).
AsSecsF64(d) ==
    LET q == NanosAsSecsF64(d.nanos)
        i == d.secs + q.int
        s == RoundFraction(i, q.frac, F64_MANTISSA_DIGITS - BitLen(i), FALSE)
    IN  IF i = 0
        THEN [neg |-> FALSE, int |-> 0, frac |-> q.frac]
        ELSE [neg |-> FALSE, int |-> s.int, frac |-> s.frac]

\* (0.bits * NANOS_PER_SEC + carry * 2^-Len(bits)): [nanos, rest] with nanos
\* the whole nanoseconds and rest the bits of the fraction left over; the
\* multiplication runs from the last bit up, split in two.
FracToNanosCarry[bits \in Seq(Bit), carry \in 0..NANOS_PER_SEC] ==
    IF bits = <<>> THEN [nanos |-> carry, rest |-> <<>>]
    ELSE IF Len(bits) = 1
    THEN LET u == bits[1] * NANOS_PER_SEC + carry
         IN  [nanos |-> u \div 2, rest |-> <<u % 2>>]
    ELSE LET h  == Len(bits) \div 2
             lo == FracToNanosCarry[SubSeq(bits, h + 1, Len(bits)), carry]
             hi == FracToNanosCarry[SubSeq(bits, 1, h), lo.nanos]
         IN  [nanos |-> hi.nanos, rest |-> hi.rest \o lo.rest]

FracToNanos(bits) == FracToNanosCarry[bits, 0]

\* Duration::try_from_secs_f64: an error for a negative value, else the value
\* rounded to the nearest nanosecond, ties to even.
TryFromSecsF64(f) ==
    IF f.neg THEN [tag |-> "Err", error |-> "InvalidDuration", detail |-> "negative"]
    ELSE LET t  == FracToNanos(f.frac)
             r  == RoundFraction(t.nanos, t.rest, 0, FALSE)
         IN  [tag |-> "Ok",
              val |-> IF r.int = NANOS_PER_SEC
                      THEN [secs |-> f.int + 1, nanos |-> 0]
                      ELSE [secs |-> f.int, nanos |-> r.int]]

\* Duration::from_millis; the u64 is held as [whole, rest], whole seconds and
\* the milliseconds above them.
FromMillis(ms) == [secs |-> ms.whole, nanos |-> ms.rest * NANOS_PER_MILLI]

\* Duration::from_secs
FromSecs(s) == [secs |-> s, nanos |-> 0]

(***************************************************************************)
(* mcp_presets.rs: the preset registry.                                     *)
(***************************************************************************)
CHROME_DEVTOOLS ==
    [id              |-> "chrome_devtools",
     label           |-> "Chrome DevTools",
     description     |-> "Launch the Chrome DevTools MCP server via npx for debugging frontends.",
     command         |-> "npx",
     args            |-> <<"chrome-devtools-mcp@latest", "--stdio">>,
     env             |-> <<>>,
     startup_timeout |-> Some(FromSecs(45)),
     tool_timeout    |-> Some(FromSecs(120))]

PRESETS == <<CHROME_DEVTOOLS>>

\* A McpServerPreset that uses what CHROME_DEVTOOLS leaves unused: environment
\* pairs, no arguments and no timeouts.  PRESETS as shipped does not hold it;
\* the registry of a run is PRESETS, or PRESETS with this entry added.
ENV_PRESET ==
    [id              |-> "env_preset",
     label           |-> "Env preset",
     description     |-> "A preset that exports environment variables.",
     command         |-> "node",
     args            |-> <<>>,
     env             |-> << <<"A", "1">>, <<"B", "2">> >>,
     startup_timeout |-> None,
     tool_timeout    |-> None]

Registries == {PRESETS, PRESETS \o <<ENV_PRESET>>}

\* The HashMap built by inserting the (key, value) pairs in order.
MapOfPairs(pairs) ==
    [k \in {pairs[i][1] : i \in 1..Len(pairs)} |->
        pairs[Highest({i \in 1..Len(pairs) : pairs[i][1] = k})][2]]

\* to_config without the tool timeout.
to_config_no_tool_timeout(self) ==
    [preset              |-> Some(self.id),
     command             |-> self.command,
     args                |-> self.args,
     env                 |-> IF self.env = <<>> THEN None ELSE Some(MapOfPairs(self.env)),
     startup_timeout_sec |-> self.startup_timeout,
     tool_timeout_sec    |-> None]

\* McpServerPreset::to_config
to_config(self) ==
    [preset              |-> Some(self.id),
     command             |-> self.command,
     args                |-> self.args,
     env                 |-> IF self.env = <<>> THEN None ELSE Some(MapOfPairs(self.env)),
     startup_timeout_sec |-> self.startup_timeout,
     tool_timeout_sec    |-> self.tool_timeout]

\* find_mcp_server_preset over the registry: the first entry whose id is id.
find_mcp_server_preset(registry, id) ==
    IF \E i \in 1..Len(registry) : registry[i].id = id
    THEN Some(registry[Lowest({i \in 1..Len(registry) : registry[i].id = id})])
    ELSE None

(***************************************************************************)
(* config_types.rs: McpServerConfig::deserialize, from the parsed           *)
(* RawMcpServerConfig on (lines 68 to 154).                                 *)
(***************************************************************************)
Ok(v) == [tag |-> "Ok", val |-> v]
Err(e, d) == [tag |-> "Err", error |-> e, detail |-> d]
IsOk(r) == r.tag = "Ok"
IsErr(r) == r.tag = "Err"

\* startup_timeout_override with the two arms of the match in the other order.
startup_timeout_override_ms_first(raw_startup_timeout_sec, startup_timeout_ms) ==
    IF IsSome(startup_timeout_ms)
    THEN Ok(Some(FromMillis(Unwrap(startup_timeout_ms))))
    ELSE IF IsSome(raw_startup_timeout_sec)
    THEN LET duration == TryFromSecsF64(Unwrap(raw_startup_timeout_sec))
         IN  IF IsErr(duration) THEN duration ELSE Ok(Some(duration.val))
    ELSE Ok(None)

\* lines 78-85: the explicit startup timeout, seconds before milliseconds.
startup_timeout_override(raw_startup_timeout_sec, startup_timeout_ms) ==
    IF IsSome(raw_startup_timeout_sec)
    THEN LET duration == TryFromSecsF64(Unwrap(raw_startup_timeout_sec))
         IN  IF IsErr(duration) THEN duration ELSE Ok(Some(duration.val))
    ELSE IF IsSome(startup_timeout_ms)
    THEN Ok(Some(FromMillis(Unwrap(startup_timeout_ms))))
    ELSE Ok(None)

\* preset_config with a failed lookup taken for a declaration without preset.
preset_config_lenient(registry, preset) ==
    IF IsSome(preset) /\ IsSome(find_mcp_server_preset(registry, Unwrap(preset)))
    THEN Ok(Some(to_config(Unwrap(find_mcp_server_preset(registry, Unwrap(preset))))))
    ELSE Ok(None)

\* lines 87-95: the preset's config, or the unknown preset error.
preset_config(registry, preset) ==
    IF IsSome(preset)
    THEN LET found == find_mcp_server_preset(registry, Unwrap(preset))
         IN  IF IsNone(found)
             THEN Err("UnknownPreset", Unwrap(preset))
             ELSE Ok(Some(to_config(Unwrap(found))))
    ELSE Ok(None)

\* command_value with an empty command in place of the missing field error.
command_value_defaulted(cfg, command) ==
    IF IsSome(command) THEN Ok(Unwrap(command))
    ELSE IF IsSome(cfg) THEN Ok(Unwrap(cfg).command)
    ELSE Ok("")

\* lines 97-106: the preset's command or else the explicit one, which is
\* required then; an explicit command replaces the preset's.
command_value(cfg, command) ==
    LET initial == IF IsSome(cfg) THEN Ok(Unwrap(cfg).command)
                   ELSE IF IsSome(command) THEN Ok(Unwrap(command))
                   ELSE Err("MissingCommand", "command")
    IN  IF IsErr(initial) THEN initial
        ELSE IF IsSome(command) THEN Ok(Unwrap(command))
        ELSE initial

\* args_value with the explicit list taken even when it is empty.
args_value_explicit(cfg, args) == args

\* lines 108-114: the preset's args, replaced by a non-empty explicit list.
args_value(cfg, args) ==
    LET initial == IF IsSome(cfg) THEN Unwrap(cfg).args ELSE <<>>
    IN  IF args # <<>> THEN args ELSE initial

\* env_value with the explicit env replacing the preset's whole map.
env_value_replace(cfg, env_override) ==
    IF IsSome(env_override) THEN Unwrap(env_override)
    ELSE IF IsSome(cfg) /\ IsSome(Unwrap(cfg).env) THEN Unwrap(Unwrap(cfg).env)
    ELSE EmptyMap

\* lines 116-128: the preset's env; an explicit env replaces an empty one and
\* is inserted key by key into a non-empty one.
env_value(cfg, env_override) ==
    LET initial == IF IsSome(cfg) /\ IsSome(Unwrap(cfg).env)
                   THEN Unwrap(Unwrap(cfg).env) ELSE EmptyMap
    IN  IF IsSome(env_override)
        THEN IF IsEmptyMap(initial) THEN Unwrap(env_override)
             ELSE InsertAll(initial, Unwrap(env_override))
        ELSE initial

\* lines 130-135: the preset's startup timeout, replaced by an explicit one.
startup_timeout_value(cfg, override) ==
    LET initial == IF IsSome(cfg) THEN Unwrap(cfg).startup_timeout_sec ELSE None
    IN  IF IsSome(override) THEN override ELSE initial

\* lines 137-140: the preset's tool timeout, replaced by an explicit one.
tool_timeout_value(cfg, tool_timeout_sec) ==
    LET initial == IF IsSome(cfg) THEN Unwrap(cfg).tool_timeout_sec ELSE None
    IN  IF IsSome(tool_timeout_sec) THEN tool_timeout_sec ELSE initial

\* env_field that keeps an empty map as a present field.
env_field_always_present(map) == Some(map)

\* lines 146-150
env_field(map) == IF IsEmptyMap(map) THEN None ELSE Some(map)

\* McpServerConfig::deserialize, in the order of its early returns.
deserialize(registry, r) ==
    LET override == startup_timeout_override(r.startup_timeout_sec, r.startup_timeout_ms)
        pcfg     == preset_config(registry, r.preset)
        cmd      == command_value(pcfg.val, r.command)
    IN  IF IsErr(override) THEN override
        ELSE IF IsErr(pcfg) THEN pcfg
        ELSE IF IsErr(cmd) THEN cmd
        ELSE Ok([preset              |-> r.preset,
                 command             |-> cmd.val,
                 args                |-> args_value(pcfg.val, r.args),
                 env                 |-> env_field(env_value(pcfg.val, r.env)),
                 startup_timeout_sec |-> startup_timeout_value(pcfg.val, override.val),
                 tool_timeout_sec    |-> tool_timeout_value(pcfg.val, r.tool_timeout_sec)])

\* serialize_option_duration_secs writing whole seconds (as_secs in place of
\* as_secs_f64).
serialize_option_duration_whole_secs(value) ==
    IF IsSome(value) THEN Some([neg |-> FALSE, int |-> Unwrap(value).secs, frac |-> <<>>])
    ELSE None

\* option_duration_secs::serialize (lines 163-171)
serialize_option_duration_secs(value) ==
    IF IsSome(value) THEN Some(AsSecsF64(Unwrap(value))) ELSE None

\* The resolved config written back as a raw declaration without its preset
\* field: the fields of McpServerConfig (lines 17-41), the startup timeout as
\* float seconds.
ReExpressed(cfg) ==
    [preset              |-> None,
     command             |-> Some(cfg.command),
     args                |-> cfg.args,
     env                 |-> cfg.env,
     startup_timeout_sec |-> serialize_option_duration_secs(cfg.startup_timeout_sec),
     startup_timeout_ms  |-> None,
     tool_timeout_sec    |-> cfg.tool_timeout_sec]

(***************************************************************************)
(* The raw declarations of a launch run.                                    *)
(***************************************************************************)
MaxArgs == 1

PresetIds == {"chrome_devtools", "Chrome_DevTools", "env_preset", "bogus"}
Commands == {"/custom/bin"}
ArgPool == {"--foo", "--bar"}
OverrideValue == [k \in {"B", "C"} |-> IF k = "B" THEN "9" ELSE "3"]

F64(neg, int, frac) == [neg |-> neg, int |-> int, frac |-> frac]
\* 5.0, 0.5, 1 + 2^-31 and -1.0
F64Samples ==
    {F64(FALSE, 5, <<>>), F64(FALSE, 0, <<1>>),
     F64(FALSE, 1, [i \in 1..31 |-> IF i = 31 THEN 1 ELSE 0]),
     F64(TRUE, 1, <<>>)}
\* 7000 ms, 250 ms and 8388608004 ms
MillisSamples ==
    {[whole |-> 7, rest |-> 0], [whole |-> 0, rest |-> 250],
     [whole |-> 8388608, rest |-> 4]}
ToolTimeouts == {FromSecs(7)}

SeqsUpTo(S, n) == UNION {[1..k -> S] : k \in 0..n}
SubMaps(f) == {[k \in D |-> f[k]] : D \in SUBSET DOMAIN f}

RawDecls ==
    [preset              : Option(PresetIds),
     command             : Option(Commands),
     args                : SeqsUpTo(ArgPool, MaxArgs),
     env                 : Option(SubMaps(OverrideValue)),
     startup_timeout_sec : Option(F64Samples),
     startup_timeout_ms  : Option(MillisSamples),
     tool_timeout_sec    : Option(ToolTimeouts)]

(***************************************************************************)
(* The launch run: deserialize, write the result back, deserialize again.   *)
(***************************************************************************)
Init ==
    /\ presets \in Registries
    /\ raw \in RawDecls
    /\ result = None
    /\ reraw = None
    /\ reresult = None
    /\ pc = "parsed"
    /\ toml = None
    /\ ambient = EmptyMap
    /\ policy = None
    /\ env = None
    /\ epc = "idle"

Deserialize ==
    /\ pc = "parsed"
    /\ result' = Some(deserialize(presets, raw))
    /\ pc' = "resolved"
    /\ UNCHANGED <<presets, raw, reraw, reresult, envVars>>

ReExpress ==
    /\ pc = "resolved"
    /\ IsOk(Unwrap(result))
    /\ reraw' = Some(ReExpressed(Unwrap(result).val))
    /\ pc' = "reexpressed"
    /\ UNCHANGED <<presets, raw, result, reresult, envVars>>

ReDeserialize ==
    /\ pc = "reexpressed"
    /\ reresult' = Some(deserialize(presets, Unwrap(reraw)))
    /\ pc' = "reresolved"
    /\ UNCHANGED <<presets, raw, result, reraw, envVars>>

Next == Deserialize \/ ReExpress \/ ReDeserialize

Spec == Init /\ [][Next]_vars

(***************************************************************************)
(* config_types.rs: ShellEnvironmentPolicy.  A variable name or a pattern   *)
(* is a sequence of characters.                                             *)
(***************************************************************************)
UpperCase == <<"A", "B", "C", "D", "E", "F", "G", "H", "I", "J", "K", "L", "M",
               "N", "O", "P", "Q", "R", "S", "T", "U", "V", "W", "X", "Y", "Z">>
LowerCase == <<"a", "b", "c", "d", "e", "f", "g", "h", "i", "j", "k", "l", "m",
               "n", "o", "p", "q", "r", "s", "t", "u", "v", "w", "x", "y", "z">>
Chars == {UpperCase[i] : i \in 1..Len(UpperCase)}
         \cup {LowerCase[i] : i \in 1..Len(LowerCase)} \cup {"_", "*", "?"}

ToLower(c) ==
    IF \E i \in 1..Len(UpperCase) : UpperCase[i] = c
    THEN LowerCase[CHOOSE i \in 1..Len(UpperCase) : UpperCase[i] = c]
    ELSE c

\* WildMatchPattern<'*', '?'> built by new_case_insensitive (lines 314, 354):
\* '*' stands for any run of characters, '?' for one character, every other
\* character for itself in either case.
WildMatch[pattern \in Seq(Chars), name \in Seq(Chars)] ==
    IF pattern = <<>> THEN name = <<>>
    ELSE IF pattern[1] = "*"
    THEN WildMatch[Tail(pattern), name]
         \/ (name # <<>> /\ WildMatch[pattern, Tail(name)])
    ELSE /\ name # <<>>
         /\ pattern[1] = "?" \/ ToLower(pattern[1]) = ToLower(name[1])
         /\ WildMatch[Tail(pattern), Tail(name)]

\* EnvironmentVariablePattern::matches
matches(pattern, name) == WildMatch[pattern, name]

\* Whether any pattern of the list matches the name.
matches_any(name, patterns) ==
    \E i \in 1..Len(patterns) : matches(patterns[i], name)

PATH == <<"P", "A", "T", "H">>
HOME == <<"H", "O", "M", "E">>
LOGNAME == <<"L", "O", "G", "N", "A", "M", "E">>
SHELL == <<"S", "H", "E", "L", "L">>
USER == <<"U", "S", "E", "R">>
EDITOR == <<"E", "D", "I", "T", "O", "R">>
EXTRA == <<"E", "X", "T", "R", "A">>
API_KEY == <<"A", "P", "I", "_", "K", "E", "Y">>
gh_token == <<"g", "h", "_", "t", "o", "k", "e", "n">>

\* The "core" variables that the doc comment of
\* ShellEnvironmentPolicyInherit::Core names (lines 283-285).
CORE_VARS == {HOME, LOGNAME, PATH, SHELL, USER}

\* The default exclude patterns "*KEY*" and "*TOKEN*" (lines 318-319).
DEFAULT_EXCLUDES == << <<"*", "K", "E", "Y", "*">>, <<"*", "T", "O", "K", "E", "N", "*">> >>

UnwrapOr(o, default) == IF IsSome(o) THEN Unwrap(o) ELSE default

\* From<ShellEnvironmentPolicyToml> for ShellEnvironmentPolicy (lines 345-374)
from_toml(t) ==
    [inherit                 |-> UnwrapOr(t.inherit, "All"),
     ignore_default_excludes |-> UnwrapOr(t.ignore_default_excludes, FALSE),
     exclude                 |-> UnwrapOr(t.exclude, <<>>),
     set                     |-> UnwrapOr(t.set, EmptyMap),
     include_only            |-> UnwrapOr(t.include_only, <<>>),
     use_profile             |-> UnwrapOr(t.experimental_use_profile, FALSE)]

\* Filtering a map: the entries whose name is in keys.
Restrict(map, keys) == [k \in DOMAIN map \cap keys |-> map[k]]

\* Step 1 of the doc comment of ShellEnvironmentPolicy (line 317): the initial
\* map for the inherit policy.
inherit_step(pol, vars_) ==
    IF pol.inherit = "All" THEN vars_
    ELSE IF pol.inherit = "None" THEN EmptyMap
    ELSE Restrict(vars_, CORE_VARS)

\* default_excludes_step with the "*KEY*" pattern alone.
default_excludes_step_key_only(pol, map) ==
    IF ~pol.ignore_default_excludes
    THEN Restrict(map, {k \in DOMAIN map : ~matches_any(k, <<DEFAULT_EXCLUDES[1]>>)})
    ELSE map

\* Step 2 (lines 318-319): unless ignore_default_excludes, drop what the
\* default exclude patterns match.
default_excludes_step(pol, map) ==
    IF ~pol.ignore_default_excludes
    THEN Restrict(map, {k \in DOMAIN map : ~matches_any(k, DEFAULT_EXCLUDES)})
    ELSE map

\* Step 3 (line 320): if exclude is not empty, drop what its patterns match.
exclude_step(pol, map) ==
    IF pol.exclude # <<>>
    THEN Restrict(map, {k \in DOMAIN map : ~matches_any(k, pol.exclude)})
    ELSE map

\* Step 4 (line 321): insert the entries of set.
set_step(pol, map) == InsertAll(map, pol.set)

\* include_only_step that filters with an empty list too.
include_only_step_always(pol, map) ==
    Restrict(map, {k \in DOMAIN map : matches_any(k, pol.include_only)})

\* Step 5 (line 322): if include_only is not empty, keep what its patterns
\* match.
include_only_step(pol, map) ==
    IF pol.include_only # <<>>
    THEN Restrict(map, {k \in DOMAIN map : matches_any(k, pol.include_only)})
    ELSE map

AfterExcludes(pol, vars_) ==
    exclude_step(pol, default_excludes_step(pol, inherit_step(pol, vars_)))
AfterSet(pol, vars_) == set_step(pol, AfterExcludes(pol, vars_))

\* derive_env with the entries of set inserted before the exclusions.
derive_env_set_first(pol, vars_) ==
    include_only_step(pol,
        exclude_step(pol, default_excludes_step(pol, set_step(pol, inherit_step(pol, vars_)))))

\* The env derived from the policy: the five steps in order (lines 316-322).
derive_env(pol, vars_) == include_only_step(pol, AfterSet(pol, vars_))

(***************************************************************************)
(* The policies and parent environments of an environment run.              *)
(***************************************************************************)
MaxPatterns == 1

ExcludePool == {HOME, <<"E", "D", "?", "T", "O", "R">>}
IncludePool == {PATH, <<"*", "k", "e", "y", "*">>}
SetPool == [k \in {EXTRA, HOME, API_KEY} |->
               IF k = EXTRA THEN "1" ELSE IF k = HOME THEN "/override" ELSE "mine"]
FullAmbient ==
    [k \in {PATH, HOME, API_KEY, gh_token, EDITOR} |->
        IF k = PATH THEN "/bin" ELSE IF k = HOME THEN "/u"
        ELSE IF k = API_KEY THEN "secret" ELSE IF k = gh_token THEN "t" ELSE "vi"]
Ambients ==
    {FullAmbient, Restrict(FullAmbient, {PATH, API_KEY, HOME}),
     Restrict(FullAmbient, {PATH, HOME}), EmptyMap}

PolicyTomls ==
    [inherit                  : Option({"Core", "All", "None"}),
     ignore_default_excludes  : Option(BOOLEAN),
     exclude                  : Option(SeqsUpTo(ExcludePool, MaxPatterns)),
     set                      : Option(SubMaps(SetPool)),
     include_only             : Option(SeqsUpTo(IncludePool, MaxPatterns)),
     experimental_use_profile : Option({TRUE})]

DefaultRaw ==
    [preset |-> None, command |-> None, args |-> <<>>, env |-> None,
     startup_timeout_sec |-> None, startup_timeout_ms |-> None,
     tool_timeout_sec |-> None]

(***************************************************************************)
(* The environment run: build the policy from its toml form, derive the env.*)
(***************************************************************************)
EnvInit ==
    /\ presets = PRESETS
    /\ raw = DefaultRaw
    /\ result = None
    /\ reraw = None
    /\ reresult = None
    /\ pc = "idle"
    /\ toml \in {Some(x) : x \in PolicyTomls}
    /\ ambient \in Ambients
    /\ policy = None
    /\ env = None
    /\ epc = "toml"

FromToml ==
    /\ epc = "toml"
    /\ policy' = Some(from_toml(Unwrap(toml)))
    /\ epc' = "policy"
    /\ UNCHANGED <<toml, ambient, env, launchVars>>

DeriveEnv ==
    /\ epc = "policy"
    /\ env' = Some(derive_env(Unwrap(policy), ambient))
    /\ epc' = "done"
    /\ UNCHANGED <<toml, ambient, policy, launchVars>>

EnvNext == FromToml \/ DeriveEnv

EnvSpec == EnvInit /\ [][EnvNext]_vars

(***************************************************************************)
(* Properties of the launch run.                                            *)
(***************************************************************************)
Res == Unwrap(result)
Cfg == Res.val
Resolved == IsSome(result) /\ IsOk(Res)

Registered(id) == \E i \in 1..Len(presets) : presets[i].id = id
PresetNamed(id) == presets[Lowest({i \in 1..Len(presets) : presets[i].id = id})]
NamesPreset == IsSome(raw.preset) /\ Registered(Unwrap(raw.preset))
P == PresetNamed(Unwrap(raw.preset))
PairKeys(pairs) == {pairs[i][1] : i \in 1..Len(pairs)}

\* The env of a resolved config as a map, an absent env being the empty map.
EnvMap(cfg) == IF IsSome(cfg.env) THEN Unwrap(cfg.env) ELSE EmptyMap

\* A startup_timeout_sec that Duration::try_from_secs_f64 rejects.
Unconvertible == IsSome(raw.startup_timeout_sec) /\ Unwrap(raw.startup_timeout_sec).neg

\* The sample inputs as durations, worked out by hand.
SecondsAsDuration(f) ==
    IF f = F64(FALSE, 5, <<>>) THEN [secs |-> 5, nanos |-> 0]
    ELSE IF f = F64(FALSE, 0, <<1>>) THEN [secs |-> 0, nanos |-> 500000000]
    ELSE [secs |-> 1, nanos |-> 0]
MillisAsDuration(ms) ==
    IF ms = [whole |-> 7, rest |-> 0] THEN [secs |-> 7, nanos |-> 0]
    ELSE IF ms = [whole |-> 0, rest |-> 250] THEN [secs |-> 0, nanos |-> 250000000]
    ELSE [secs |-> 8388608, nanos |-> 4000000]

\* C1: when a declaration names a registered preset whose env is non-empty and
\* carries an explicit env, the resolved env has exactly the preset's keys and
\* the override's keys, every override key with the override's value and every
\* other preset key with the preset's value; when the preset env is empty or
\* no preset is named, the resolved env is the override.
C1_EnvMerge ==
    (Resolved /\ IsSome(raw.env)) =>
        LET over  == Unwrap(raw.env)
            pairs == IF IsSome(raw.preset) THEN P.env ELSE <<>>
            got   == EnvMap(Cfg)
        IN  IF pairs # <<>>
            THEN /\ DOMAIN got = PairKeys(pairs) \cup DOMAIN over
                 /\ \A k \in DOMAIN over : got[k] = over[k]
                 /\ \A i \in 1..Len(pairs) :
                        pairs[i][1] \notin DOMAIN over => got[pairs[i][1]] = pairs[i][2]
            ELSE got = over

\* C1 witness: preset env {A:1, B:2} with override {B:9, C:3} resolved to
\* {A:1, B:9, C:3}.
C1_Witness ==
    /\ Resolved
    /\ raw.preset = Some("env_preset")
    /\ raw.env = Some([k \in {"B", "C"} |-> IF k = "B" THEN "9" ELSE "3"])
    /\ Cfg.env = Some([k \in {"A", "B", "C"} |->
                          IF k = "A" THEN "1" ELSE IF k = "B" THEN "9" ELSE "3"])

\* The raw declaration with one input field set to another value.
WithField(r, field, v) == [r EXCEPT ![field] = v]
InputFields == {"command", "args", "env", "startup_timeout_sec",
                "startup_timeout_ms", "tool_timeout_sec"}
\* The output fields an input field does not decide.
OtherOutputs(field) ==
    {"command", "args", "env", "startup_timeout_sec", "tool_timeout_sec"}
    \ (IF field = "startup_timeout_ms" THEN {"startup_timeout_sec"} ELSE {field})
FieldValues(field) == {r[field] : r \in RawDecls}

\* C2: with a registered preset P named, command is the explicit command if
\* present else P's, args the explicit list if non-empty else P's, the startup
\* timeout the explicit one if present else P's, the tool timeout the explicit
\* one if present else P's; and giving one input field any other value leaves
\* every other resolved field as it was.
C2_FieldPrecedence ==
    (Resolved /\ NamesPreset) =>
        /\ Cfg.command = IF IsSome(raw.command) THEN Unwrap(raw.command) ELSE P.command
        /\ Cfg.args = IF raw.args # <<>> THEN raw.args ELSE P.args
        /\ Cfg.startup_timeout_sec =
               IF IsSome(raw.startup_timeout_sec)
               THEN Some(SecondsAsDuration(Unwrap(raw.startup_timeout_sec)))
               ELSE IF IsSome(raw.startup_timeout_ms)
               THEN Some(MillisAsDuration(Unwrap(raw.startup_timeout_ms)))
               ELSE P.startup_timeout
        /\ Cfg.tool_timeout_sec =
               IF IsSome(raw.tool_timeout_sec) THEN raw.tool_timeout_sec
               ELSE P.tool_timeout
        /\ \A field \in InputFields : \A v \in FieldValues(field) :
               LET other == deserialize(presets, WithField(raw, field, v))
               IN  IsOk(other) =>
                       \A out \in OtherOutputs(field) : other.val[out] = Cfg[out]

\* C2 witness: a preset with arguments, an explicit command and an empty
\* explicit list: the command is the explicit one, the args stay the preset's.
C2_Witness ==
    /\ Resolved
    /\ raw.preset = Some("chrome_devtools")
    /\ raw.command = Some("/custom/bin")
    /\ raw.args = <<>>
    /\ IsNone(raw.tool_timeout_sec)
    /\ Cfg.command = "/custom/bin"
    /\ Cfg.args = <<"chrome-devtools-mcp@latest", "--stdio">>
    /\ Cfg.tool_timeout_sec = Some([secs |-> 120, nanos |-> 0])

OnlyPreset ==
    /\ IsNone(raw.command) /\ raw.args = <<>> /\ IsNone(raw.env)
    /\ IsNone(raw.startup_timeout_sec) /\ IsNone(raw.startup_timeout_ms)
    /\ IsNone(raw.tool_timeout_sec)

\* C3: a declaration that names a registered preset P and sets nothing else
\* resolves to preset = P.id, P's command, P's args in order, P's env (absent
\* when P has none) and P's two timeouts.
C3_PresetExpansion ==
    (pc # "parsed" /\ NamesPreset /\ OnlyPreset) =>
        /\ IsOk(Res)
        /\ Cfg.preset = Some(P.id)
        /\ Cfg.command = P.command
        /\ Cfg.args = P.args
        /\ IF P.env = <<>> THEN IsNone(Cfg.env)
           ELSE /\ IsSome(Cfg.env)
                /\ DOMAIN Unwrap(Cfg.env) = PairKeys(P.env)
                /\ \A i \in 1..Len(P.env) : Unwrap(Cfg.env)[P.env[i][1]] = P.env[i][2]
        /\ Cfg.startup_timeout_sec = P.startup_timeout
        /\ Cfg.tool_timeout_sec = P.tool_timeout

\* C3 witness: preset = "chrome_devtools" alone resolved to npx with its two
\* arguments, no env, 45 s and 120 s.
C3_Witness ==
    /\ Resolved
    /\ raw.preset = Some("chrome_devtools")
    /\ OnlyPreset
    /\ Cfg = [preset              |-> Some("chrome_devtools"),
              command             |-> "npx",
              args                |-> <<"chrome-devtools-mcp@latest", "--stdio">>,
              env                 |-> None,
              startup_timeout_sec |-> Some([secs |-> 45, nanos |-> 0]),
              tool_timeout_sec    |-> Some([secs |-> 120, nanos |-> 0])]

UnknownPresetNamed == IsSome(raw.preset) /\ ~Registered(Unwrap(raw.preset))

ReRes == Unwrap(reresult)

\* Durations below this many seconds have an f64 spacing under a nanosecond.
ExactBelowSecs == 2^(F64_MANTISSA_DIGITS - NANOS_MAX_LEADING_ZEROS - 1)

\* C6 as stated: a resolved config written back as a raw declaration without
\* preset field resolves again to the identical config.
C6_Original ==
    pc = "reresolved" => ReRes = Res

\* C6 amended: a resolved config written back as a raw declaration without
\* preset field resolves again, to a config without preset identifier whose
\* command, args, env and tool timeout are those of the first, and whose
\* startup timeout is that of the first when it is below 2^23 seconds.
C6_RoundTrip ==
    pc = "reresolved" =>
        /\ IsOk(ReRes)
        /\ IsNone(ReRes.val.preset)
        /\ ReRes.val.command = Cfg.command
        /\ ReRes.val.args = Cfg.args
        /\ ReRes.val.env = Cfg.env
        /\ ReRes.val.tool_timeout_sec = Cfg.tool_timeout_sec
        /\ (IsSome(Cfg.startup_timeout_sec)
              /\ Unwrap(Cfg.startup_timeout_sec).secs < ExactBelowSecs)
           => ReRes.val.startup_timeout_sec = Cfg.startup_timeout_sec
        /\ IsNone(Cfg.startup_timeout_sec) => IsNone(ReRes.val.startup_timeout_sec)

\* C6 witness: a config resolved from a preset with a half-second startup
\* timeout comes back the same but for its preset identifier.
C6_Witness ==
    /\ pc = "reresolved"
    /\ raw.preset = Some("env_preset")
    /\ Cfg.startup_timeout_sec = Some([secs |-> 0, nanos |-> 500000000])
    /\ IsSome(Cfg.env)
    /\ IsOk(ReRes)
    /\ ReRes.val = [Cfg EXCEPT !.preset = None]

\* C10: the resolved startup timeout is the explicit seconds value when
\* startup_timeout_sec is present, whatever startup_timeout_ms holds; else the
\* startup_timeout_ms value when present; else the named preset's startup
\* timeout; else absent.
C10_StartupTimeoutSource ==
    Resolved =>
        Cfg.startup_timeout_sec =
            IF IsSome(raw.startup_timeout_sec)
            THEN Some(SecondsAsDuration(Unwrap(raw.startup_timeout_sec)))
            ELSE IF IsSome(raw.startup_timeout_ms)
            THEN Some(MillisAsDuration(Unwrap(raw.startup_timeout_ms)))
            ELSE IF IsSome(raw.preset) THEN P.startup_timeout
            ELSE None

\* C10 witness: seconds 5.0 and milliseconds 7000 both given with a preset of
\* 45 s: the resolved startup timeout is 5 s.
C10_Witness ==
    /\ Resolved
    /\ raw.preset = Some("chrome_devtools")
    /\ raw.startup_timeout_sec = Some(F64(FALSE, 5, <<>>))
    /\ raw.startup_timeout_ms = Some([whole |-> 7, rest |-> 0])
    /\ Cfg.startup_timeout_sec = Some([secs |-> 5, nanos |-> 0])

\* C11: in every resolved spec, the first and the re-resolved one alike, the
\* env field is absent or a non-empty map, never a present empty map; an
\* explicit empty env with no preset or with a preset whose env is empty
\* resolves to an absent env, and an explicit empty env with a preset whose env
\* is non-empty resolves to the preset's env unchanged.
C11_EmptyEnvAbsent ==
    /\ Resolved =>
          /\ IsNone(Cfg.env) \/ ~IsEmptyMap(Unwrap(Cfg.env))
          /\ (IsSome(raw.env) /\ IsEmptyMap(Unwrap(raw.env))) =>
                LET pairs == IF IsSome(raw.preset) THEN P.env ELSE <<>>
                IN  IF pairs = <<>> THEN IsNone(Cfg.env)
                    ELSE Cfg.env = Some(MapOfPairs(pairs))
    /\ (IsSome(reresult) /\ IsOk(ReRes)) =>
          IsNone(ReRes.val.env) \/ ~IsEmptyMap(Unwrap(ReRes.val.env))

\* C11 witness: no preset, an explicit command and an explicit empty env
\* resolved to a spec whose env is absent.
C11_Witness ==
    /\ Resolved
    /\ IsNone(raw.preset)
    /\ IsSome(raw.env)
    /\ IsEmptyMap(Unwrap(raw.env))
    /\ IsNone(Cfg.env)

(***************************************************************************)
(* Properties of the environment run.                                       *)
(***************************************************************************)
Pol == Unwrap(policy)
Env == Unwrap(env)
Derived == epc = "done"

\* The names of the run that contain KEY or TOKEN in some case.
SensitiveNames == {API_KEY, gh_token}

Seeded(k) ==
    /\ k \in DOMAIN ambient
    /\ Pol.inherit = "All" \/ (Pol.inherit = "Core" /\ k \in CORE_VARS)

\* C8: with ignore_default_excludes false no name that contains KEY or TOKEN in
\* some case is in the final environment unless the policy sets it, for every
\* inherit mode; with ignore_default_excludes true such an inherited name that
\* the other steps keep is in the final environment; and inherit = all with no
\* other field set over {PATH, API_KEY, HOME} gives {PATH, HOME} with their
\* inherited values.
C8_DefaultExcludes ==
    Derived =>
        /\ ~Pol.ignore_default_excludes =>
               \A k \in DOMAIN Env \cap SensitiveNames : k \in DOMAIN Pol.set
        /\ Pol.ignore_default_excludes =>
               \A k \in SensitiveNames :
                   (/\ Seeded(k)
                    /\ ~matches_any(k, Pol.exclude)
                    /\ Pol.include_only = <<>> \/ matches_any(k, Pol.include_only))
                   => k \in DOMAIN Env
        /\ (/\ DOMAIN ambient = {PATH, API_KEY, HOME}
            /\ Unwrap(toml).inherit \in {None, Some("All")}
            /\ IsNone(Unwrap(toml).ignore_default_excludes)
            /\ IsNone(Unwrap(toml).exclude)
            /\ IsNone(Unwrap(toml).set)
            /\ IsNone(Unwrap(toml).include_only))
           => Env = [k \in {PATH, HOME} |-> ambient[k]]

\* C8 witness: the full parent environment inherited with the default excludes
\* on and nothing else set: API_KEY and gh_token are gone, the rest is there.
C8_Witness ==
    /\ Derived
    /\ Unwrap(toml).inherit = Some("All")
    /\ IsNone(Unwrap(toml).ignore_default_excludes)
    /\ IsNone(Unwrap(toml).set)
    /\ DOMAIN ambient = {PATH, HOME, API_KEY, gh_token, EDITOR}
    /\ DOMAIN Env = {PATH, HOME, EDITOR}

\* C9 as stated: with a non-empty include_only every final entry that the
\* policy does not set matches an include_only pattern, and every inherited
\* entry left by the inherit and exclusion steps that matches one is kept with
\* its inherited value; with an empty include_only the final environment is
\* the map after the set step.
C9_Original ==
    Derived =>
        IF Pol.include_only # <<>>
        THEN /\ \A k \in DOMAIN Env \ DOMAIN Pol.set : matches_any(k, Pol.include_only)
             /\ \A k \in DOMAIN AfterExcludes(Pol, ambient) :
                    matches_any(k, Pol.include_only)
                    => k \in DOMAIN Env /\ Env[k] = ambient[k]
        ELSE Env = AfterSet(Pol, ambient)

\* C9 amended: as stated, except that a kept inherited entry whose name the
\* policy sets holds the set value, not the inherited one.
C9_IncludeOnly ==
    Derived =>
        IF Pol.include_only # <<>>
        THEN /\ \A k \in DOMAIN Env \ DOMAIN Pol.set : matches_any(k, Pol.include_only)
             /\ \A k \in DOMAIN AfterExcludes(Pol, ambient) :
                    matches_any(k, Pol.include_only)
                    => /\ k \in DOMAIN Env
                       /\ Env[k] = IF k \in DOMAIN Pol.set THEN Pol.set[k]
                                   ELSE ambient[k]
        ELSE Env = AfterSet(Pol, ambient)

\* C9 witness: include_only = [PATH] over {PATH, HOME} leaves PATH alone, with
\* its inherited value.
C9_Witness ==
    /\ Derived
    /\ Pol.include_only = <<PATH>>
    /\ Pol.inherit = "All"
    /\ DOMAIN ambient = {PATH, HOME}
    /\ IsEmptyMap(Pol.set)
    /\ Env = [k \in {PATH} |-> "/bin"]

=============================================================================
